---- MODULE Spec2Model ----
(***************************************************************************)
(* hashline: LINE:HASH anchored read/edit tool (src/hashline/src/main.rs). *)
(*                                                                         *)
(* A text is a sequence of one-character strings.  One behaviour is one    *)
(* invocation of the binary on a file: either the read command or the edit *)
(* command, the latter stepped through the phases of apply_hashline_edits. *)
(***************************************************************************)
EXTENDS Integers, Sequences, FiniteSets, TLC

\* ---------------------------------------------------------------- bounds
\* Largest number of lines of an input file.
MaxLines == 3
\* Largest number of operations of one edit batch.
MaxEdits == 2

\* ------------------------------------------------------- text primitives
LF == "\n"
CR == "\r"
CRLF == <<CR, LF>>

Last(s) == s[Len(s)]
Front(s) == SubSeq(s, 1, Len(s) - 1)
Range(s) == {s[k] : k \in DOMAIN s}

\* str::ends_with
ends_with(s, p) ==
    Len(p) <= Len(s) /\ SubSeq(s, Len(s) - Len(p) + 1, Len(s)) = p

\* str::find: 0-based position of the first occurrence of p in s, -1 for None.
RECURSIVE find_from(_, _, _)
find_from(s, p, k) ==
    IF k + Len(p) > Len(s) THEN -1
    ELSE IF SubSeq(s, k + 1, k + Len(p)) = p THEN k
    ELSE find_from(s, p, k + 1)
find(s, p) == find_from(s, p, 0)

\* str::contains
contains(s, p) == find(s, p) >= 0

\* str::replace with a non-empty pattern: every non-overlapping occurrence,
\* scanning left to right.
RECURSIVE replace(_, _, _)
replace(s, from, to) ==
    LET p == find(s, from)
    IN  IF p < 0 THEN s
        ELSE SubSeq(s, 1, p) \o to \o
             replace(SubSeq(s, p + Len(from) + 1, Len(s)), from, to)

\* str::split on one character: always at least one segment.
RECURSIVE split(_, _)
split(s, c) ==
    LET p == find(s, <<c>>)
    IN  IF p < 0 THEN <<s>>
        ELSE <<SubSeq(s, 1, p)>> \o split(SubSeq(s, p + 2, Len(s)), c)

\* [String]::join
RECURSIVE join(_, _)
join(parts, sep) ==
    IF parts = <<>> THEN <<>>
    ELSE IF Len(parts) = 1 THEN parts[1]
    ELSE parts[1] \o sep \o join(Tail(parts), sep)

\* char::is_whitespace, on the characters the model uses.
is_whitespace(ch) == ch \in {" ", "\t", LF, CR}

\* str::trim
RECURSIVE trim_start(_)
trim_start(s) ==
    IF s # <<>> /\ is_whitespace(s[1]) THEN trim_start(Tail(s)) ELSE s
RECURSIVE trim_end(_)
trim_end(s) ==
    IF s # <<>> /\ is_whitespace(Last(s)) THEN trim_end(Front(s)) ELSE s
trim(s) == trim_end(trim_start(s))

\* str::to_ascii_lowercase
UpperToLower ==
    [ch \in {"A", "B", "C", "D", "E", "F"} |->
        CASE ch = "A" -> "a" [] ch = "B" -> "b" [] ch = "C" -> "c"
          [] ch = "D" -> "d" [] ch = "E" -> "e" [] ch = "F" -> "f"]
to_ascii_lowercase(s) ==
    [k \in DOMAIN s |-> IF s[k] \in DOMAIN UpperToLower
                        THEN UpperToLower[s[k]] ELSE s[k]]

DecDigits == <<"0", "1", "2", "3", "4", "5", "6", "7", "8", "9">>
HexDigits == DecDigits \o <<"a", "b", "c", "d", "e", "f">>

\* Display of usize ("{}").
RECURSIVE fmt_usize(_)
fmt_usize(n) ==
    IF n < 10 THEN <<DecDigits[n + 1]>>
    ELSE fmt_usize(n \div 10) \o <<DecDigits[(n % 10) + 1]>>

\* str::parse::<usize>: decimal digits with an optional leading '+';
\* -1 stands for Err.
digit_value(ch) == CHOOSE d \in 0..9 : DecDigits[d + 1] = ch
RECURSIVE parse_digits(_, _)
parse_digits(s, acc) ==
    IF s = <<>> THEN acc
    ELSE IF s[1] \notin Range(DecDigits) THEN -1
    ELSE parse_digits(Tail(s), acc * 10 + digit_value(s[1]))
parse_usize(s) ==
    LET body == IF s # <<>> /\ s[1] = "+" THEN Tail(s) ELSE s
    IN  IF body = <<>> THEN -1 ELSE parse_digits(body, 0)

\* "{:04x}" of a value below 16^4.
fmt_04x(v) ==
    << HexDigits[(v \div 4096) + 1], HexDigits[((v \div 256) % 16) + 1],
       HexDigits[((v \div 16) % 16) + 1], HexDigits[(v % 16) + 1] >>

\* ----------------------------------------------------------- fingerprint
\* UTF-8 code of the characters the model uses.
byte_of(ch) ==
    CASE ch = "a" -> 97 [] ch = "b" -> 98 [] ch = "c" -> 99
      [] ch = " " -> 32 [] ch = "\t" -> 9 [] ch = LF -> 10 [] ch = CR -> 13
      [] OTHER -> 63

\* xxhash_rust::xxh32::xxh32(bytes, seed 0) is an external crate.  What the
\* program relies on is that it is a fixed function of the bytes; the model
\* uses a multiplicative hash that agrees with XXH32 on the empty input
\* (0x02CC5D05) and is kept below 2^24 so that no product overflows.
HashModulus == 16777216
HashSeedEmpty == 46947589
HashMultiplier == 33
RECURSIVE xxh32_from(_, _)
xxh32_from(bytes, h) ==
    IF bytes = <<>> THEN h
    ELSE xxh32_from(Tail(bytes), (h * HashMultiplier + byte_of(bytes[1])) % HashModulus)
xxh32(bytes) == xxh32_from(bytes, HashSeedEmpty % HashModulus)

\* `& 0xffff`
HashMask == 65536

\* Variant: only carriage returns are left out of the hashed text.
keeps_char_only_cr(ch) == ch # CR

keeps_char(ch) == ch # CR /\ ~is_whitespace(ch)

compute_line_hash(line) ==
    LET normalized == SelectSeq(line, keeps_char)
        h == xxh32(normalized)
        truncated == h % HashMask
    IN  fmt_04x(truncated)

\* --------------------------------------------------- line-ending filter
detect_line_ending(s) == IF contains(s, CRLF) THEN CRLF ELSE <<LF>>

normalize_to_lf(s) == replace(s, CRLF, <<LF>>)

restore_line_endings(s, ending) ==
    IF ending = <<LF>> THEN s ELSE replace(s, <<LF>>, ending)

split_preserve_last_empty(s) ==
    LET parts == split(s, LF)
    IN  IF ends_with(s, <<LF>>) /\ Last(parts) = <<>> THEN Front(parts) ELSE parts

\* ---------------------------------------------------------- anchor parser
\* LineRef, or ok = FALSE for the Err of parse_line_ref.
BadRef == [ok |-> FALSE, line |-> 0, hash |-> <<>>]

parse_line_ref(s) ==
    LET it == split(s, ":")
    IN  IF Len(it) < 2 THEN BadRef
        ELSE IF Len(it) > 2 THEN BadRef
        ELSE LET line == parse_usize(it[1])
                 hash == to_ascii_lowercase(trim(it[2]))
             IN  IF line < 0 THEN BadRef
                 ELSE IF line = 0 THEN BadRef
                 ELSE IF hash = <<>> THEN BadRef
                 ELSE [ok |-> TRUE, line |-> line, hash |-> hash]

\* ------------------------------------------------------ fingerprint index
\* counts / first_seen / unique of apply_hashline_edits, as functions on the
\* fingerprints that occur in the file.
line_hashes(lines) == {compute_line_hash(lines[k]) : k \in DOMAIN lines}

counts(lines) ==
    [h \in line_hashes(lines) |->
        Cardinality({k \in DOMAIN lines : compute_line_hash(lines[k]) = h})]

first_seen(lines) ==
    [h \in line_hashes(lines) |->
        CHOOSE k \in DOMAIN lines :
            /\ compute_line_hash(lines[k]) = h
            /\ \A m \in DOMAIN lines : compute_line_hash(lines[m]) = h => k <= m]

\* Variant: every fingerprint that occurs is a relocation target, at its
\* first occurrence.
unique_keys_first_match(lines) == DOMAIN counts(lines)

unique_keys(lines) == {h \in DOMAIN counts(lines) : counts(lines)[h] = 1}

unique_index(lines) == [h \in unique_keys(lines) |-> first_seen(lines)[h]]

\* ------------------------------------------------------------ parse phase
\* One iteration of the loop that turns HashlineEdit into ParsedSpec.
\* err = "" stands for Ok.
NoSpec == [idx |-> 0, kind |-> "None"]

\* Variant: empty texts are not checked when the operations are parsed.
parse_edit_unvalidated(idx, edit) ==
    CASE edit.kind = "set_line" ->
            LET r == parse_line_ref(edit.anchor)
            IN  IF ~r.ok THEN [err |-> "InvalidAnchor", spec |-> NoSpec]
                ELSE [err |-> "",
                      spec |-> [idx |-> idx, kind |-> "Single", r |-> r,
                                dst |-> edit.new_text]]
      [] edit.kind = "replace_lines" ->
            LET start == parse_line_ref(edit.start_anchor)
                end == parse_line_ref(edit.end_anchor)
            IN  IF ~start.ok THEN [err |-> "InvalidAnchor", spec |-> NoSpec]
                ELSE IF ~end.ok THEN [err |-> "InvalidAnchor", spec |-> NoSpec]
                ELSE [err |-> "",
                      spec |-> [idx |-> idx, kind |-> "Range", start |-> start,
                                end |-> end, dst |-> edit.new_text]]
      [] edit.kind = "insert_after" ->
            LET after == parse_line_ref(edit.anchor)
            IN  IF ~after.ok THEN [err |-> "InvalidAnchor", spec |-> NoSpec]
                ELSE [err |-> "",
                      spec |-> [idx |-> idx, kind |-> "InsertAfter",
                                after |-> after, dst |-> edit.text]]
      [] edit.kind = "replace" ->
            [err |-> "",
             spec |-> [idx |-> idx, kind |-> "ReplaceText",
                       old |-> edit.old_text, new_ |-> edit.new_text,
                       all |-> (edit.all = "true")]]

parse_edit(idx, edit) ==
    CASE edit.kind = "set_line" ->
            LET r == parse_line_ref(edit.anchor)
            IN  IF ~r.ok THEN [err |-> "InvalidAnchor", spec |-> NoSpec]
                ELSE [err |-> "",
                      spec |-> [idx |-> idx, kind |-> "Single", r |-> r,
                                dst |-> edit.new_text]]
      [] edit.kind = "replace_lines" ->
            LET start == parse_line_ref(edit.start_anchor)
                end == parse_line_ref(edit.end_anchor)
            IN  IF ~start.ok THEN [err |-> "InvalidAnchor", spec |-> NoSpec]
                ELSE IF ~end.ok THEN [err |-> "InvalidAnchor", spec |-> NoSpec]
                ELSE [err |-> "",
                      spec |-> [idx |-> idx, kind |-> "Range", start |-> start,
                                end |-> end, dst |-> edit.new_text]]
      [] edit.kind = "insert_after" ->
            LET after == parse_line_ref(edit.anchor)
            IN  IF ~after.ok THEN [err |-> "InvalidAnchor", spec |-> NoSpec]
                ELSE IF edit.text = <<>>
                     THEN [err |-> "EmptyInsertText", spec |-> NoSpec]
                ELSE [err |-> "",
                      spec |-> [idx |-> idx, kind |-> "InsertAfter",
                                after |-> after, dst |-> edit.text]]
      [] edit.kind = "replace" ->
            IF edit.old_text = <<>>
            THEN [err |-> "EmptyOldText", spec |-> NoSpec]
            ELSE [err |-> "",
                  spec |-> [idx |-> idx, kind |-> "ReplaceText",
                            old |-> edit.old_text, new_ |-> edit.new_text,
                            all |-> (edit.all = "true")]]

\* The whole loop: the first failing edit ends it.  idx is 0-based as in
\* enumerate().
RECURSIVE parse_from(_, _, _)
parse_from(edits, k, acc) ==
    IF k > Len(edits) THEN [err |-> "", parsed |-> acc]
    ELSE LET p == parse_edit(k - 1, edits[k])
         IN  IF p.err # "" THEN [err |-> p.err, parsed |-> <<>>]
             ELSE parse_from(edits, k + 1, Append(acc, p.spec))
parse_all(edits) == parse_from(edits, 1, <<>>)

\* ---------------------------------------------------------- anchor resolver
\* Variant: an anchor that cannot be relocated is left as it is and no
\* mismatch is recorded.
validate_or_relocate_unrecorded(r, lines, unique, mismatches) ==
    IF r.line < 1 \/ r.line > Len(lines)
    THEN [err |-> "OutOfRange", r |-> r, mismatches |-> mismatches]
    ELSE LET actual == compute_line_hash(lines[r.line])
         IN  IF actual = r.hash
             THEN [err |-> "", r |-> r, mismatches |-> mismatches]
             ELSE IF r.hash \in DOMAIN unique
             THEN [err |-> "", r |-> [r EXCEPT !.line = unique[r.hash]],
                   mismatches |-> mismatches]
             ELSE [err |-> "", r |-> r, mismatches |-> mismatches]

\* Variant: only the first stale anchor is recorded.
validate_or_relocate_first_only(r, lines, unique, mismatches) ==
    IF r.line < 1 \/ r.line > Len(lines)
    THEN [err |-> "OutOfRange", r |-> r, mismatches |-> mismatches]
    ELSE LET actual == compute_line_hash(lines[r.line])
         IN  IF actual = r.hash
             THEN [err |-> "", r |-> r, mismatches |-> mismatches]
             ELSE IF r.hash \in DOMAIN unique
             THEN [err |-> "", r |-> [r EXCEPT !.line = unique[r.hash]],
                   mismatches |-> mismatches]
             ELSE [err |-> "", r |-> r,
                   mismatches |-> IF mismatches = <<>>
                                  THEN <<<<r.line, r.hash, actual>>>>
                                  ELSE mismatches]

\* Variant: the range check comes after the relocation lookup.
validate_or_relocate_late_range_check(r, lines, unique, mismatches) ==
    IF r.line >= 1 /\ r.line <= Len(lines) /\ compute_line_hash(lines[r.line]) = r.hash
    THEN [err |-> "", r |-> r, mismatches |-> mismatches]
    ELSE IF r.hash \in DOMAIN unique
    THEN [err |-> "", r |-> [r EXCEPT !.line = unique[r.hash]],
          mismatches |-> mismatches]
    ELSE IF r.line < 1 \/ r.line > Len(lines)
    THEN [err |-> "OutOfRange", r |-> r, mismatches |-> mismatches]
    ELSE [err |-> "", r |-> r,
          mismatches |-> Append(mismatches,
                                <<r.line, r.hash, compute_line_hash(lines[r.line])>>)]

\* Variant: an anchor that matches its line is accepted only if its
\* fingerprint occurs on no other line.
validate_or_relocate_ambiguous_rejected(r, lines, unique, mismatches) ==
    IF r.line < 1 \/ r.line > Len(lines)
    THEN [err |-> "OutOfRange", r |-> r, mismatches |-> mismatches]
    ELSE LET actual == compute_line_hash(lines[r.line])
         IN  IF actual = r.hash /\ r.hash \in DOMAIN unique
             THEN [err |-> "", r |-> r, mismatches |-> mismatches]
             ELSE IF r.hash \in DOMAIN unique
             THEN [err |-> "", r |-> [r EXCEPT !.line = unique[r.hash]],
                   mismatches |-> mismatches]
             ELSE [err |-> "", r |-> r,
                   mismatches |-> Append(mismatches, <<r.line, r.hash, actual>>)]

validate_or_relocate(r, lines, unique, mismatches) ==
    IF r.line < 1 \/ r.line > Len(lines)
    THEN [err |-> "OutOfRange", r |-> r, mismatches |-> mismatches]
    ELSE LET actual == compute_line_hash(lines[r.line])
         IN  IF actual = r.hash
             THEN [err |-> "", r |-> r, mismatches |-> mismatches]
             ELSE IF r.hash \in DOMAIN unique
             THEN [err |-> "", r |-> [r EXCEPT !.line = unique[r.hash]],
                   mismatches |-> mismatches]
             ELSE [err |-> "", r |-> r,
                   mismatches |-> Append(mismatches, <<r.line, r.hash, actual>>)]

\* One iteration of the "Validate and relocate" loop.
resolve_spec(spec, lines, unique, mismatches) ==
    CASE spec.kind = "Single" ->
            LET v == validate_or_relocate(spec.r, lines, unique, mismatches)
            IN  [err |-> v.err, spec |-> [spec EXCEPT !.r = v.r],
                 mismatches |-> v.mismatches]
      [] spec.kind = "Range" ->
            LET v1 == validate_or_relocate(spec.start, lines, unique, mismatches)
                v2 == validate_or_relocate(spec.end, lines, unique, v1.mismatches)
                s2 == [spec EXCEPT !.start = v1.r, !.end = v2.r]
            IN  IF v1.err # ""
                THEN [err |-> v1.err, spec |-> spec, mismatches |-> v1.mismatches]
                ELSE IF v2.err # ""
                THEN [err |-> v2.err, spec |-> [spec EXCEPT !.start = v1.r],
                      mismatches |-> v2.mismatches]
                ELSE IF v1.r.line > v2.r.line
                THEN [err |-> "InvalidRange", spec |-> s2,
                      mismatches |-> v2.mismatches]
                ELSE [err |-> "", spec |-> s2, mismatches |-> v2.mismatches]
      [] spec.kind = "InsertAfter" ->
            LET v == validate_or_relocate(spec.after, lines, unique, mismatches)
            IN  [err |-> v.err, spec |-> [spec EXCEPT !.after = v.r],
                 mismatches |-> v.mismatches]
      [] spec.kind = "ReplaceText" ->
            [err |-> "", spec |-> spec, mismatches |-> mismatches]

RECURSIVE resolve_from(_, _, _, _, _)
resolve_from(parsed, k, lines, unique, mismatches) ==
    IF k > Len(parsed)
    THEN [err |-> "", parsed |-> parsed, mismatches |-> mismatches]
    ELSE LET v == resolve_spec(parsed[k], lines, unique, mismatches)
         IN  IF v.err # ""
             THEN [err |-> v.err, parsed |-> parsed, mismatches |-> v.mismatches]
             ELSE resolve_from([parsed EXCEPT ![k] = v.spec], k + 1, lines,
                               unique, v.mismatches)
resolve_all(parsed, lines, unique) == resolve_from(parsed, 1, lines, unique, <<>>)

\* --------------------------------------------------------------- ordering
\* Variant: a replace is ordered in front of every line.
sort_key_replace_first(spec) ==
    CASE spec.kind = "Single" -> <<spec.r.line, 0>>
      [] spec.kind = "Range" -> <<spec.end.line, 0>>
      [] spec.kind = "InsertAfter" -> <<spec.after.line, 1>>
      [] spec.kind = "ReplaceText" -> <<MaxLines + 1, 9>>

\* Variant: on one line the insert_after has the lower precedence.
sort_key_insert_last(spec) ==
    CASE spec.kind = "Single" -> <<spec.r.line, 1>>
      [] spec.kind = "Range" -> <<spec.end.line, 1>>
      [] spec.kind = "InsertAfter" -> <<spec.after.line, 0>>
      [] spec.kind = "ReplaceText" -> <<0, 9>>

sort_key(spec) ==
    CASE spec.kind = "Single" -> <<spec.r.line, 0>>
      [] spec.kind = "Range" -> <<spec.end.line, 0>>
      [] spec.kind = "InsertAfter" -> <<spec.after.line, 1>>
      [] spec.kind = "ReplaceText" -> <<0, 9>>

\* Ordering::cmp of two (usize, usize) keys: a < b.
key_less(a, b) == a[1] < b[1] \/ (a[1] = b[1] /\ a[2] < b[2])

\* The comparator b_key.cmp(&a_key): x sorts strictly before y when the key
\* of y is less than the key of x.
sorts_before(x, y) == key_less(sort_key(y), sort_key(x))

\* slice::sort_by is stable: an element is placed behind every element
\* already placed that does not sort strictly after it.
RECURSIVE insert_sorted(_, _)
insert_sorted(sorted, x) ==
    IF sorted = <<>> THEN <<x>>
    ELSE IF sorts_before(x, sorted[1]) THEN <<x>> \o sorted
    ELSE <<sorted[1]>> \o insert_sorted(Tail(sorted), x)

RECURSIVE sort_from(_, _, _)
sort_from(parsed, k, acc) ==
    IF k > Len(parsed) THEN acc
    ELSE sort_from(parsed, k + 1, insert_sorted(acc, parsed[k]))
\* Variant: the operations stay in declared order.
sort_parsed_declared(parsed) == parsed

sort_parsed(parsed) == sort_from(parsed, 1, <<>>)

\* ------------------------------------------------------------- application
\* Variant: the replacement text is taken as one line.
split_dst_lines_whole(dst) == IF dst = <<>> THEN <<>> ELSE <<dst>>

split_dst_lines(dst) == IF dst = <<>> THEN <<>> ELSE split(dst, LF)

\* Vec::splice(from..to, repl) with 0-based half-open bounds.
splice(v, from, to, repl) ==
    SubSeq(v, 1, from) \o repl \o SubSeq(v, to + 1, Len(v))

\* Variant: insert_after puts the text in front of the anchored line.
apply_spec_insert_before(lines, spec) ==
    CASE spec.kind = "Single" ->
            LET dst_lines == split_dst_lines(spec.dst)
                at == spec.r.line - 1
            IN  IF at >= Len(lines)
                THEN [err |-> "OutOfBounds", lines |-> lines]
                ELSE [err |-> "", lines |-> splice(lines, at, at + 1, dst_lines)]
      [] spec.kind = "Range" ->
            LET dst_lines == split_dst_lines(spec.dst)
                s == spec.start.line - 1
                e == spec.end.line - 1
            IN  IF s >= Len(lines) \/ e >= Len(lines)
                THEN [err |-> "OutOfBounds", lines |-> lines]
                ELSE IF s > e
                THEN [err |-> "InvalidRange", lines |-> lines]
                ELSE [err |-> "", lines |-> splice(lines, s, e + 1, dst_lines)]
      [] spec.kind = "InsertAfter" ->
            LET dst_lines == split_dst_lines(spec.dst)
                at == spec.after.line - 1
            IN  IF spec.after.line > Len(lines)
                THEN [err |-> "OutOfBounds", lines |-> lines]
                ELSE [err |-> "", lines |-> splice(lines, at, at, dst_lines)]
      [] spec.kind = "ReplaceText" ->
            IF spec.all
            THEN [err |-> "",
                  lines |-> split(replace(join(lines, <<LF>>), spec.old, spec.new_), LF)]
            ELSE LET joined == join(lines, <<LF>>)
                     pos == find(joined, spec.old)
                 IN  IF pos >= 0
                     THEN [err |-> "",
                           lines |-> split(SubSeq(joined, 1, pos) \o spec.new_ \o
                                           SubSeq(joined, pos + Len(spec.old) + 1,
                                                  Len(joined)), LF)]
                     ELSE [err |-> "SubstringNotFound", lines |-> lines]

\* Variant: a replace without all also rewrites every occurrence.
apply_spec_replace_every(lines, spec) ==
    CASE spec.kind = "Single" ->
            LET dst_lines == split_dst_lines(spec.dst)
                at == spec.r.line - 1
            IN  IF at >= Len(lines)
                THEN [err |-> "OutOfBounds", lines |-> lines]
                ELSE [err |-> "", lines |-> splice(lines, at, at + 1, dst_lines)]
      [] spec.kind = "Range" ->
            LET dst_lines == split_dst_lines(spec.dst)
                s == spec.start.line - 1
                e == spec.end.line - 1
            IN  IF s >= Len(lines) \/ e >= Len(lines)
                THEN [err |-> "OutOfBounds", lines |-> lines]
                ELSE IF s > e
                THEN [err |-> "InvalidRange", lines |-> lines]
                ELSE [err |-> "", lines |-> splice(lines, s, e + 1, dst_lines)]
      [] spec.kind = "InsertAfter" ->
            LET dst_lines == split_dst_lines(spec.dst)
                at == spec.after.line
            IN  IF spec.after.line > Len(lines)
                THEN [err |-> "OutOfBounds", lines |-> lines]
                ELSE [err |-> "", lines |-> splice(lines, at, at, dst_lines)]
      [] spec.kind = "ReplaceText" ->
            IF spec.all
            THEN [err |-> "",
                  lines |-> split(replace(join(lines, <<LF>>), spec.old, spec.new_), LF)]
            ELSE LET joined == join(lines, <<LF>>)
                     pos == find(joined, spec.old)
                 IN  IF pos >= 0
                     THEN [err |-> "",
                           lines |-> split(replace(joined, spec.old, spec.new_), LF)]
                     ELSE [err |-> "SubstringNotFound", lines |-> lines]

\* Variant: a replace with all fails, too, when old_text does not occur.
apply_spec_all_must_match(lines, spec) ==
    CASE spec.kind = "Single" ->
            LET dst_lines == split_dst_lines(spec.dst)
                at == spec.r.line - 1
            IN  IF at >= Len(lines)
                THEN [err |-> "OutOfBounds", lines |-> lines]
                ELSE [err |-> "", lines |-> splice(lines, at, at + 1, dst_lines)]
      [] spec.kind = "Range" ->
            LET dst_lines == split_dst_lines(spec.dst)
                s == spec.start.line - 1
                e == spec.end.line - 1
            IN  IF s >= Len(lines) \/ e >= Len(lines)
                THEN [err |-> "OutOfBounds", lines |-> lines]
                ELSE IF s > e
                THEN [err |-> "InvalidRange", lines |-> lines]
                ELSE [err |-> "", lines |-> splice(lines, s, e + 1, dst_lines)]
      [] spec.kind = "InsertAfter" ->
            LET dst_lines == split_dst_lines(spec.dst)
                at == spec.after.line
            IN  IF spec.after.line > Len(lines)
                THEN [err |-> "OutOfBounds", lines |-> lines]
                ELSE [err |-> "", lines |-> splice(lines, at, at, dst_lines)]
      [] spec.kind = "ReplaceText" ->
            IF spec.all
            THEN IF contains(join(lines, <<LF>>), spec.old)
                 THEN [err |-> "",
                       lines |-> split(replace(join(lines, <<LF>>), spec.old,
                                               spec.new_), LF)]
                 ELSE [err |-> "SubstringNotFound", lines |-> lines]
            ELSE LET joined == join(lines, <<LF>>)
                     pos == find(joined, spec.old)
                 IN  IF pos >= 0
                     THEN [err |-> "",
                           lines |-> split(SubSeq(joined, 1, pos) \o spec.new_ \o
                                           SubSeq(joined, pos + Len(spec.old) + 1,
                                                  Len(joined)), LF)]
                     ELSE [err |-> "SubstringNotFound", lines |-> lines]

\* One iteration of the mutation loop.
apply_spec(lines, spec) ==
    CASE spec.kind = "Single" ->
            LET dst_lines == split_dst_lines(spec.dst)
                at == spec.r.line - 1
            IN  IF at >= Len(lines)
                THEN [err |-> "OutOfBounds", lines |-> lines]
                ELSE [err |-> "", lines |-> splice(lines, at, at + 1, dst_lines)]
      [] spec.kind = "Range" ->
            LET dst_lines == split_dst_lines(spec.dst)
                s == spec.start.line - 1
                e == spec.end.line - 1
            IN  IF s >= Len(lines) \/ e >= Len(lines)
                THEN [err |-> "OutOfBounds", lines |-> lines]
                ELSE IF s > e
                THEN [err |-> "InvalidRange", lines |-> lines]
                ELSE [err |-> "", lines |-> splice(lines, s, e + 1, dst_lines)]
      [] spec.kind = "InsertAfter" ->
            LET dst_lines == split_dst_lines(spec.dst)
                at == spec.after.line
            IN  IF spec.after.line > Len(lines)
                THEN [err |-> "OutOfBounds", lines |-> lines]
                ELSE [err |-> "", lines |-> splice(lines, at, at, dst_lines)]
      [] spec.kind = "ReplaceText" ->
            IF spec.all
            THEN [err |-> "",
                  lines |-> split(replace(join(lines, <<LF>>), spec.old, spec.new_), LF)]
            ELSE LET joined == join(lines, <<LF>>)
                     pos == find(joined, spec.old)
                 IN  IF pos >= 0
                     THEN [err |-> "",
                           lines |-> split(SubSeq(joined, 1, pos) \o spec.new_ \o
                                           SubSeq(joined, pos + Len(spec.old) + 1,
                                                  Len(joined)), LF)]
                     ELSE [err |-> "SubstringNotFound", lines |-> lines]

RECURSIVE apply_from(_, _, _)
apply_from(lines, parsed, k) ==
    IF k > Len(parsed) THEN [err |-> "", lines |-> lines]
    ELSE LET a == apply_spec(lines, parsed[k])
         IN  IF a.err # "" THEN a ELSE apply_from(a.lines, parsed, k + 1)

\* apply_hashline_edits as a function of its two arguments.
apply_hashline_edits(lines, edits) ==
    IF edits = <<>> THEN [err |-> "", lines |-> lines, mismatches |-> <<>>]
    ELSE LET unique == unique_index(lines)
             p == parse_all(edits)
             v == resolve_all(p.parsed, lines, unique)
         IN  IF p.err # ""
             THEN [err |-> p.err, lines |-> lines, mismatches |-> <<>>]
             ELSE IF v.err # ""
             THEN [err |-> v.err, lines |-> lines, mismatches |-> v.mismatches]
             ELSE IF v.mismatches # <<>>
             THEN [err |-> "StaleAnchors", lines |-> lines,
                   mismatches |-> v.mismatches]
             ELSE LET a == apply_from(lines, sort_parsed(v.parsed), 1)
                  IN  [err |-> a.err, lines |-> a.lines, mismatches |-> <<>>]

\* ------------------------------------------------------------ request parser
\* serde_json is an external crate: a payload is modelled by its shape and
\* the operations it decodes to.  form "array" is a bare JSON array, "object"
\* an object with an edits field, "absent" an object without one (serde
\* default), "malformed" text that does not decode.
\* Variant: an object without an edits field does not decode.
parse_edits_payload_required(p) ==
    IF p.form = "array" THEN [err |-> "", edits |-> p.edits]
    ELSE IF p.form \in {"malformed", "absent"}
    THEN [err |-> "MalformedRequestPayload", edits |-> <<>>]
    ELSE [err |-> "", edits |-> p.edits]

parse_edits_payload(p) ==
    IF p.form = "array" THEN [err |-> "", edits |-> p.edits]
    ELSE IF p.form = "malformed"
    THEN [err |-> "MalformedRequestPayload", edits |-> <<>>]
    ELSE IF p.form = "absent" THEN [err |-> "", edits |-> <<>>]
    ELSE [err |-> "", edits |-> p.edits]

\* ---------------------------------------------------------------- read mode
\* The lines the read command prints, or the error it ends with.  An absent
\* --offset / --limit is -1.
\* Variant: the printed line number is the 0-based index.
fmt_read_line_zero_based(line_no, line) ==
    fmt_usize(line_no - 1) \o <<":">> \o compute_line_hash(line) \o <<"|">> \o line

fmt_read_line(line_no, line) ==
    fmt_usize(line_no) \o <<":">> \o compute_line_hash(line) \o <<"|">> \o line

RECURSIVE read_loop(_, _, _, _, _, _)
read_loop(lines, k, start, max_lines, printed, out) ==
    IF k > Len(lines) THEN out
    ELSE IF k < start THEN read_loop(lines, k + 1, start, max_lines, printed, out)
    ELSE IF printed >= max_lines THEN out
    ELSE read_loop(lines, k + 1, start, max_lines, printed + 1,
                   Append(out, fmt_read_line(k, lines[k])))

read_command(content, offset, limit) ==
    LET normalized == normalize_to_lf(content)
        lines == split_preserve_last_empty(normalized)
        start == IF offset < 0 THEN 1 ELSE offset
        floor == IF Len(lines) > 1 THEN Len(lines) ELSE 1
        max_lines == IF limit < 0 THEN Len(lines) ELSE limit
    IN  IF start = 0 THEN [err |-> "OffsetZero", out |-> <<>>]
        ELSE IF start > floor THEN [err |-> "OffsetOutOfRange", out |-> <<>>]
        ELSE [err |-> "", out |-> read_loop(lines, 1, start, max_lines, 0, <<>>)]

\* Output of the edit command for the final line sequence.
render_output(new_lines, final_newline, ending) ==
    LET joined == join(new_lines, <<LF>>)
        out == IF final_newline THEN Append(joined, LF) ELSE joined
    IN  restore_line_endings(out, ending)

\* ------------------------------------------------------------------- inputs
SeqsUpTo(S, n) == UNION {[1..k -> S] : k \in 0..n}

\* Contents of the lines of the input files: one plain line, one line with
\* trailing whitespace.
LineTexts == {<<"a">>, <<"b", " ">>}

\* Line terminator and presence of a final terminator.
Formats == {[sep |-> <<LF>>, final |-> TRUE], [sep |-> CRLF, final |-> FALSE]}

raw_file(ls, f) == join(ls, f.sep) \o (IF f.final THEN f.sep ELSE <<>>)

Files == {raw_file(ls, f) : ls \in SeqsUpTo(LineTexts, MaxLines), f \in Formats}

anchor(l, h) == fmt_usize(l) \o <<":">> \o h

AnchorHashes == {compute_line_hash(t) : t \in LineTexts}

CanonAnchors == {anchor(l, h) : l \in 1..MaxLines, h \in AnchorHashes}

\* Anchors that carry the fingerprint of the plain line.
PlainAnchors == {anchor(l, compute_line_hash(<<"a">>)) : l \in 1..MaxLines}

\* Line 0, no separator, and an upper-case hash behind a blank.
OddAnchors ==
    { <<"0", ":", "f", "e", "0", "6">>, <<"1">>,
      <<"2", ":", " ", "F", "E", "0", "6">> }

\* The anchor read prints for the one line of an empty file.
EmptyLineAnchor == anchor(1, compute_line_hash(<<>>))

SetLineEdits ==
    {[kind |-> "set_line", anchor |-> t, new_text |-> x] :
        t \in CanonAnchors, x \in {<<"b">>, <<"b", LF, "a">>}}
    \cup {[kind |-> "set_line", anchor |-> t, new_text |-> <<>>] :
        t \in PlainAnchors}
    \cup {[kind |-> "set_line", anchor |-> t, new_text |-> <<"b">>] :
        t \in OddAnchors \cup {EmptyLineAnchor}}

ReplaceLinesEdits ==
    {[kind |-> "replace_lines", start_anchor |-> t, end_anchor |-> u,
      new_text |-> <<>>] : t \in PlainAnchors, u \in PlainAnchors}

InsertAfterEdits ==
    {[kind |-> "insert_after", anchor |-> t, text |-> <<"b">>] :
        t \in PlainAnchors}
    \cup {[kind |-> "insert_after", anchor |-> anchor(1, compute_line_hash(<<"a">>)),
           text |-> x] : x \in {<<>>, <<"b", LF, "a">>}}

ReplaceEdits ==
    { [kind |-> "replace", old_text |-> <<"a">>, new_text |-> <<"b">>, all |-> "none"],
      [kind |-> "replace", old_text |-> <<"a">>, new_text |-> <<"b">>, all |-> "true"],
      [kind |-> "replace", old_text |-> <<"a">>, new_text |-> <<"a">>, all |-> "none"],
      [kind |-> "replace", old_text |-> <<>>, new_text |-> <<"b">>, all |-> "none"],
      [kind |-> "replace", old_text |-> <<"c">>, new_text |-> <<"b">>, all |-> "none"],
      [kind |-> "replace", old_text |-> <<"c">>, new_text |-> <<"b">>, all |-> "true"] }

Edits == SetLineEdits \cup ReplaceLinesEdits \cup InsertAfterEdits \cup ReplaceEdits

Batches == SeqsUpTo(Edits, MaxEdits)

NoEdits == <<>>

Payloads ==
    {[form |-> "array", edits |-> b] : b \in Batches}
    \cup {[form |-> "object", edits |-> b] : b \in SeqsUpTo(Edits, MaxEdits - 1)}
    \cup {[form |-> f, edits |-> NoEdits] : f \in {"absent", "malformed", "missing"}}

Offsets == -1..(MaxLines + 1)
Limits == -1..MaxLines

\* -------------------------------------------------------------------- state
VARIABLES
    file,              \* content of the file on disk
    file0,             \* content of the file when the command started
    writes,            \* number of fs::write calls on the file
    pc,                \* position of the command
    err,               \* error the command ended with, "" for none
    stdout,            \* lines printed by the read command
    payload,           \* --edits-json / --edits-file, as given
    line_ending,       \* main: line_ending
    had_final_newline, \* main: had_final_newline
    edits,             \* main: edits
    old_lines,         \* main: old_lines
    lines,             \* apply_hashline_edits: lines (the working sequence)
    origin,            \* for each working line, its pre-edit line number, 0 if new
    unique,            \* apply_hashline_edits: unique
    parsed,            \* apply_hashline_edits: parsed
    mismatches,        \* apply_hashline_edits: mismatches
    i                  \* position of the running loop in parsed (1-based)

vars == << file, file0, writes, pc, err, stdout, payload, line_ending,
           had_final_newline, edits, old_lines, lines, origin, unique, parsed,
           mismatches, i >>

NoPayload == [form |-> "missing", edits |-> NoEdits]
NoIndex == [h \in {} |-> 0]

Init ==
    /\ file \in Files
    /\ file0 = file
    /\ writes = 0
    /\ pc = "idle"
    /\ err = ""
    /\ stdout = <<>>
    /\ payload = NoPayload
    /\ line_ending = <<LF>>
    /\ had_final_newline = FALSE
    /\ edits = <<>>
    /\ old_lines = <<>>
    /\ lines = <<>>
    /\ origin = <<>>
    /\ unique = NoIndex
    /\ parsed = <<>>
    /\ mismatches = <<>>
    /\ i = 1

\* Command::Read
Read ==
    /\ pc = "idle"
    /\ \E offset \in Offsets, limit \in Limits :
        LET r == read_command(file, offset, limit)
        IN  /\ stdout' = r.out
            /\ err' = r.err
            /\ pc' = IF r.err = "" THEN "read_done" ELSE "failed"
    /\ UNCHANGED << file, file0, writes, payload, line_ending, had_final_newline,
                    edits, old_lines, lines, origin, unique, parsed, mismatches, i >>

\* Command::Edit up to the call of apply_hashline_edits.
EditStart ==
    /\ pc = "idle"
    /\ \E p \in Payloads :
        LET raw == file
            normalized == normalize_to_lf(raw)
            decoded == parse_edits_payload(p)
            split_lines == split_preserve_last_empty(normalized)
        IN  /\ payload' = p
            /\ line_ending' = detect_line_ending(raw)
            /\ had_final_newline' = ends_with(raw, <<LF>>)
            /\ IF p.form = "missing"
               THEN /\ err' = "NoPayload"
                    /\ pc' = "failed"
                    /\ UNCHANGED << edits, old_lines, lines, origin >>
               ELSE IF decoded.err # ""
               THEN /\ err' = decoded.err
                    /\ pc' = "failed"
                    /\ UNCHANGED << edits, old_lines, lines, origin >>
               ELSE /\ err' = ""
                    /\ pc' = "begin"
                    /\ edits' = decoded.edits
                    /\ old_lines' = split_lines
                    /\ lines' = split_lines
                    /\ origin' = [k \in DOMAIN split_lines |-> k]
    /\ UNCHANGED << file, file0, writes, stdout, unique, parsed, mismatches, i >>

\* apply_hashline_edits: the early return, the fingerprint index and the
\* parse loop.
BeginApply ==
    /\ pc = "begin"
    /\ IF edits = <<>>
       THEN /\ pc' = "returned"
            /\ UNCHANGED << err, unique, parsed >>
       ELSE LET p == parse_all(edits)
            IN  /\ unique' = unique_index(lines)
                /\ parsed' = p.parsed
                /\ err' = p.err
                /\ pc' = IF p.err = "" THEN "resolve" ELSE "failed"
    /\ i' = 1
    /\ UNCHANGED << file, file0, writes, stdout, payload, line_ending,
                    had_final_newline, edits, old_lines, lines, origin, mismatches >>

\* One iteration of the "Validate and relocate" loop.
ResolveStep ==
    /\ pc = "resolve"
    /\ i <= Len(parsed)
    /\ LET v == resolve_spec(parsed[i], lines, unique, mismatches)
       IN  /\ mismatches' = v.mismatches
           /\ parsed' = [parsed EXCEPT ![i] = v.spec]
           /\ err' = v.err
           /\ pc' = IF v.err = "" THEN "resolve" ELSE "failed"
           /\ i' = IF v.err = "" THEN i + 1 ELSE i
    /\ UNCHANGED << file, file0, writes, stdout, payload, line_ending,
                    had_final_newline, edits, old_lines, lines, origin, unique >>

\* After the loop: the mismatch check, then the bottom-up sort.
CheckAndSort ==
    /\ pc = "resolve"
    /\ i > Len(parsed)
    /\ IF mismatches # <<>>
       THEN /\ err' = "StaleAnchors"
            /\ pc' = "failed"
            /\ UNCHANGED parsed
       ELSE /\ parsed' = sort_parsed(parsed)
            /\ pc' = "mutate"
            /\ UNCHANGED err
    /\ i' = 1
    /\ UNCHANGED << file, file0, writes, stdout, payload, line_ending,
                    had_final_newline, edits, old_lines, lines, origin, unique,
                    mismatches >>

\* Pre-edit line numbers of the working lines after one operation: spliced
\* like the lines themselves, new lines are 0; a ReplaceText rebuilds every
\* line.
zeros(n) == [k \in 1..n |-> 0]
origin_after(org, spec, new_len) ==
    CASE spec.kind = "Single" ->
            splice(org, spec.r.line - 1, spec.r.line,
                   zeros(Len(split_dst_lines(spec.dst))))
      [] spec.kind = "Range" ->
            splice(org, spec.start.line - 1, spec.end.line,
                   zeros(Len(split_dst_lines(spec.dst))))
      [] spec.kind = "InsertAfter" ->
            splice(org, spec.after.line, spec.after.line,
                   zeros(Len(split_dst_lines(spec.dst))))
      [] spec.kind = "ReplaceText" -> zeros(new_len)

\* Variant: the file is rewritten after every operation of the loop.
ApplyStepWriteThrough ==
    /\ pc = "mutate"
    /\ i <= Len(parsed)
    /\ LET a == apply_spec(lines, parsed[i])
       IN  IF a.err # ""
           THEN /\ err' = a.err
                /\ pc' = "failed"
                /\ UNCHANGED << lines, origin, i, file >>
           ELSE /\ lines' = a.lines
                /\ origin' = origin_after(origin, parsed[i], Len(a.lines))
                /\ i' = i + 1
                /\ pc' = IF i = Len(parsed) THEN "returned" ELSE "mutate"
                /\ file' = render_output(a.lines, had_final_newline, line_ending)
                /\ UNCHANGED err
    /\ UNCHANGED << file0, writes, stdout, payload, line_ending,
                    had_final_newline, edits, old_lines, unique, parsed, mismatches >>

\* One iteration of the mutation loop; after the last one the function
\* returns Ok(lines).
ApplyStep ==
    /\ pc = "mutate"
    /\ i <= Len(parsed)
    /\ LET a == apply_spec(lines, parsed[i])
       IN  IF a.err # ""
           THEN /\ err' = a.err
                /\ pc' = "failed"
                /\ UNCHANGED << lines, origin, i >>
           ELSE /\ lines' = a.lines
                /\ origin' = origin_after(origin, parsed[i], Len(a.lines))
                /\ i' = i + 1
                /\ pc' = IF i = Len(parsed) THEN "returned" ELSE "mutate"
                /\ UNCHANGED err
    /\ UNCHANGED << file, file0, writes, stdout, payload, line_ending,
                    had_final_newline, edits, old_lines, unique, parsed, mismatches >>

\* Variant: the result is written without the no-change check.
FinishUnchecked ==
    /\ pc = "returned"
    /\ file' = render_output(lines, had_final_newline, line_ending)
    /\ writes' = writes + 1
    /\ pc' = "done"
    /\ UNCHANGED << err, file0, stdout, payload, line_ending, had_final_newline,
                    edits, old_lines, lines, origin, unique, parsed, mismatches, i >>

\* Command::Edit after apply_hashline_edits returned Ok: the no-change check
\* and the write.
Finish ==
    /\ pc = "returned"
    /\ IF old_lines = lines
       THEN /\ err' = "NoEffectiveChange"
            /\ pc' = "failed"
            /\ UNCHANGED << file, writes >>
       ELSE /\ file' = render_output(lines, had_final_newline, line_ending)
            /\ writes' = writes + 1
            /\ pc' = "done"
            /\ UNCHANGED err
    /\ UNCHANGED << file0, stdout, payload, line_ending, had_final_newline, edits,
                    old_lines, lines, origin, unique, parsed, mismatches, i >>

Next ==
    \/ Read
    \/ EditStart
    \/ BeginApply
    \/ ResolveStep
    \/ CheckAndSort
    \/ ApplyStep
    \/ Finish

Spec == Init /\ [][Next]_vars

\* ------------------------------------------------------- claim vocabulary
\* Fingerprint multiplicity in the pre-edit file, counted directly.
Occurrences(h) ==
    Cardinality({k \in DOMAIN old_lines : compute_line_hash(old_lines[k]) = h})

\* The request operation a parsed operation comes from.
EditOf(spec) == edits[spec.idx + 1]

\* The anchors of a parsed operation: <<LineRef as it stands, token given>>.
AnchorsOf(spec) ==
    CASE spec.kind = "Single" -> {<<spec.r, EditOf(spec).anchor>>}
      [] spec.kind = "Range" -> {<<spec.start, EditOf(spec).start_anchor>>,
                                 <<spec.end, EditOf(spec).end_anchor>>}
      [] spec.kind = "InsertAfter" -> {<<spec.after, EditOf(spec).anchor>>}
      [] OTHER -> {}

MutationErrors == {"OutOfBounds", "SubstringNotFound"}

\* The mutation phase was entered: every anchor resolved, no mismatch.
InMutation ==
    \/ pc = "mutate"
    \/ pc \in {"returned", "done"} /\ edits # <<>>
    \/ pc = "failed" /\ err \in MutationErrors
    \/ pc = "failed" /\ err = "NoEffectiveChange" /\ edits # <<>>

\* The parsed operations whose resolution has completed.
ResolvedSpecs ==
    IF pc = "resolve" THEN {parsed[k] : k \in 1..(i - 1)}
    ELSE IF InMutation \/ (pc = "failed" /\ err = "StaleAnchors") THEN Range(parsed)
    ELSE {}

ResolvedAnchors == UNION {AnchorsOf(spec) : spec \in ResolvedSpecs}

\* Content the edit command writes for a line sequence, given the file it
\* started from.
Written(new_lines) ==
    LET joined == join(new_lines, <<LF>>)
        text == IF file0 # <<>> /\ Last(file0) = LF THEN joined \o <<LF>> ELSE joined
    IN  IF contains(file0, CRLF) THEN replace(text, <<LF>>, CRLF) ELSE text

\* ---------------------------------------------------------------------- C1
\* C1: all-or-nothing.  Until the edit command has succeeded the file holds
\* exactly the content it started with and was never written, also when an
\* operation failed after earlier ones changed the working lines; once it has
\* succeeded every operation of the batch was applied and the file holds the
\* rendering of the result of the whole batch.
C1_AllOrNothing ==
    /\ pc # "done" => file = file0 /\ writes = 0
    /\ pc = "done" =>
        LET whole == apply_hashline_edits(
                        split_preserve_last_empty(normalize_to_lf(file0)), edits)
        IN  /\ err = ""
            /\ writes = 1
            /\ i = Len(parsed) + 1
            /\ whole.err = ""
            /\ lines = whole.lines
            /\ file = Written(whole.lines)

\* An operation failed after an earlier operation of the batch had changed
\* the working lines.
C1_Witness ==
    /\ pc = "failed"
    /\ err \in MutationErrors
    /\ i > 1
    /\ lines # old_lines

\* ---------------------------------------------------------------------- C2
\* The lines an anchor-addressed operation acts on (for InsertAfter, the
\* line it inserts behind).
TargetLines(spec) ==
    CASE spec.kind = "Single" -> {spec.r.line}
      [] spec.kind = "Range" -> spec.start.line..spec.end.line
      [] spec.kind = "InsertAfter" -> {spec.after.line}
      [] OTHER -> {}

\* C2: no position corruption.  Whenever an anchor-addressed operation is
\* about to be applied, the working lines at the positions its resolved
\* anchors name are still the pre-edit lines with those numbers.
C2_TargetsArePreEditLines ==
    (pc = "mutate" /\ i <= Len(parsed)) =>
        \A k \in TargetLines(parsed[i]) : k <= Len(origin) /\ origin[k] = k

\* ---------------------------------------------------------------------- C3
\* C3: when the mutation phase begins the mismatch list is empty and every
\* anchor names a line of the pre-edit file whose fingerprint is the
\* anchor's hash, relocated or not.
C3_AnchorsValidAtMutation ==
    (pc = "mutate" /\ i = 1) =>
        /\ mismatches = <<>>
        /\ lines = old_lines
        /\ \A spec \in Range(parsed) : \A a \in AnchorsOf(spec) :
            /\ 1 <= a[1].line
            /\ a[1].line <= Len(old_lines)
            /\ compute_line_hash(old_lines[a[1].line]) = a[1].hash
            /\ a[1].hash = parse_line_ref(a[2]).hash

\* The mutation phase begins with a relocated anchor.
C3_Witness ==
    /\ pc = "mutate"
    /\ i = 1
    /\ \E spec \in Range(parsed) : \E a \in AnchorsOf(spec) :
        a[1].line # parse_line_ref(a[2]).line

\* ---------------------------------------------------------------------- C4
\* C4: relocation uniqueness.  A resolved anchor stands on another line than
\* the one it named only if its hash did not match there and exactly one
\* pre-edit line has that fingerprint, and then it stands on that line; a
\* non-matching anchor whose fingerprint occurs on no line or on several
\* keeps its line and is recorded as a mismatch.
C4_RelocationUnique ==
    \A a \in ResolvedAnchors :
        LET given == parse_line_ref(a[2])
            there == compute_line_hash(old_lines[given.line])
        IN  /\ a[1].line # given.line =>
                /\ there # given.hash
                /\ Occurrences(given.hash) = 1
                /\ compute_line_hash(old_lines[a[1].line]) = given.hash
            /\ (there # given.hash /\ Occurrences(given.hash) = 1) =>
                compute_line_hash(old_lines[a[1].line]) = given.hash
            /\ (there # given.hash /\ Occurrences(given.hash) # 1) =>
                /\ a[1].line = given.line
                /\ \E m \in DOMAIN mismatches :
                    mismatches[m] = <<given.line, given.hash, there>>

\* An anchor whose fingerprint occurs on several lines, none of them the
\* line it names, has been resolved.
C4_Witness ==
    \E a \in ResolvedAnchors :
        /\ Occurrences(a[1].hash) >= 2
        /\ compute_line_hash(old_lines[parse_line_ref(a[2]).line]) # a[1].hash

\* ---------------------------------------------------------------------- C5
\* The anchor tokens of a request operation, in resolution order.
TokensOf(edit) ==
    CASE edit.kind = "set_line" -> <<edit.anchor>>
      [] edit.kind = "replace_lines" -> <<edit.start_anchor, edit.end_anchor>>
      [] edit.kind = "insert_after" -> <<edit.anchor>>
      [] OTHER -> <<>>

RECURSIVE TokensFrom(_, _)
TokensFrom(es, k) ==
    IF k > Len(es) THEN <<>> ELSE TokensOf(es[k]) \o TokensFrom(es, k + 1)

\* An in-range anchor that neither matches its line nor has a fingerprint
\* occurring exactly once.
IsStale(token) ==
    LET given == parse_line_ref(token)
    IN  /\ given.line <= Len(old_lines)
        /\ compute_line_hash(old_lines[given.line]) # given.hash
        /\ Occurrences(given.hash) # 1

StaleRecord(token) ==
    LET given == parse_line_ref(token)
    IN  <<given.line, given.hash, compute_line_hash(old_lines[given.line])>>

RECURSIVE StaleRecordsFrom(_, _)
StaleRecordsFrom(tokens, k) ==
    IF k > Len(tokens) THEN <<>>
    ELSE (IF IsStale(tokens[k]) THEN <<StaleRecord(tokens[k])>> ELSE <<>>)
         \o StaleRecordsFrom(tokens, k + 1)

ExpectedMismatches == StaleRecordsFrom(TokensFrom(edits, 1), 1)

AllAnchorsResolved == pc = "resolve" /\ i > Len(parsed)

\* C5: stale anchors.  A step taken once every anchor of the batch has been
\* resolved, with at least one stale anchor among them, ends the command
\* with the stale-anchor error; the report holds one record (line, expected,
\* actual) for every stale anchor of the batch, and neither the working
\* lines nor the file have changed.
C5_StaleAnchorsReported ==
    [][(AllAnchorsResolved /\ ExpectedMismatches # <<>>) =>
        /\ pc' = "failed"
        /\ err' = "StaleAnchors"
        /\ mismatches' = ExpectedMismatches
        /\ lines' = old_lines
        /\ file' = file0
        /\ writes' = 0]_vars

\* A batch failed with two stale anchors in its report.
C5_Witness ==
    /\ pc = "failed"
    /\ err = "StaleAnchors"
    /\ Len(mismatches) >= 2
    /\ mismatches[1] # mismatches[2]

\* ---------------------------------------------------------------------- C6
Anchored(spec) == spec.kind \in {"Single", "Range", "InsertAfter"}

\* The line an anchor-addressed operation is ordered by.
KeyLine(spec) ==
    CASE spec.kind = "Single" -> spec.r.line
      [] spec.kind = "Range" -> spec.end.line
      [] spec.kind = "InsertAfter" -> spec.after.line

\* apply_hashline_edits has run its mutation loop to the end or to an error.
MutationEnded ==
    /\ InMutation
    /\ pc # "mutate"

\* What apply_hashline_edits ended with, "" for Ok.
ApplyErr == IF err = "NoEffectiveChange" THEN "" ELSE err

TwoAnchoredOps ==
    /\ Len(edits) = 2
    /\ Len(parsed) = 2
    /\ Anchored(parsed[1])
    /\ Anchored(parsed[2])
    /\ KeyLine(parsed[1]) # KeyLine(parsed[2])

\* C6: declared order does not matter.  For a batch of two anchor-addressed
\* operations on different lines, the run on the batch with the two
\* operations exchanged ends the same way with the same line sequence, and
\* that is the pre-edit file with the higher operation applied first and
\* the lower one second.
C6_DeclaredOrderIrrelevant ==
    (MutationEnded /\ TwoAnchoredOps) =>
        LET swapped == apply_hashline_edits(old_lines, <<edits[2], edits[1]>>)
            hi == IF KeyLine(parsed[1]) > KeyLine(parsed[2]) THEN parsed[1] ELSE parsed[2]
            lo == IF KeyLine(parsed[1]) > KeyLine(parsed[2]) THEN parsed[2] ELSE parsed[1]
            first == apply_spec(old_lines, hi)
            second == apply_spec(first.lines, lo)
            manual == IF first.err # "" THEN first ELSE second
        IN  /\ swapped.err = ApplyErr
            /\ swapped.lines = lines
            /\ manual.err = ApplyErr
            /\ manual.lines = lines

\* A batch listed top-down succeeded, and the operation on the higher line
\* changed the number of lines.
C6_Witness ==
    /\ pc = "returned"
    /\ TwoAnchoredOps
    /\ parsed[1].idx = 1
    /\ KeyLine(parsed[1]) > KeyLine(parsed[2])
    /\ Len(apply_spec(old_lines, parsed[1]).lines) # Len(old_lines)
    /\ lines # old_lines

\* ---------------------------------------------------------------------- C7
\* The payload decoded to a batch.
Decoded == pc \notin {"idle", "read_done"} /\ payload.form \in {"array", "object", "absent"}

Ended == pc \in {"done", "failed"}

\* C7: no silent no-op.  A command that succeeded changed the line sequence;
\* a command whose batch applies without error to a line sequence identical
\* to the input ended with the no-effective-change error and did not write
\* the file.
C7_NoSilentNoOp ==
    /\ pc = "done" => lines # old_lines
    /\ (Decoded /\ Ended) =>
        LET whole == apply_hashline_edits(old_lines, edits)
        IN  (whole.err = "" /\ whole.lines = old_lines) =>
                /\ pc = "failed"
                /\ err = "NoEffectiveChange"
                /\ file = file0
                /\ writes = 0

\* A batch with operations was rejected because it changed nothing.
C7_Witness ==
    /\ pc = "failed"
    /\ err = "NoEffectiveChange"
    /\ edits # <<>>
    /\ i > 1

\* ---------------------------------------------------------------------- C8
ZeroOperations == Decoded /\ parse_edits_payload(payload).edits = <<>>

\* C8 as stated: a payload with zero operations returns the input line
\* sequence unchanged and the edit run does not end in an error.
C8_ZeroOperationsNoError ==
    (ZeroOperations /\ Ended) => (err = "" /\ lines = old_lines)

\* C8 as amended: a payload with zero operations decodes without error and
\* apply_hashline_edits returns the input line sequence unchanged as Ok; the
\* edit command then ends with the no-effective-change error and the file is
\* not written.
C8_ZeroOperationsRejected ==
    ZeroOperations =>
        /\ pc \in {"begin", "returned", "failed"}
        /\ edits = <<>>
        /\ lines = old_lines
        /\ file = file0
        /\ writes = 0
        /\ pc \in {"begin", "returned"} => err = ""
        /\ pc = "failed" => err = "NoEffectiveChange"

\* The command ended on an object payload without an edits field.
C8_Witness ==
    /\ Ended
    /\ payload.form = "absent"
    /\ err = "NoEffectiveChange"
    /\ lines = old_lines

\* ---------------------------------------------------------------------- C9
\* The operation about to be resolved names a line beyond the file.
ResolvingOutOfRange ==
    /\ pc = "resolve"
    /\ i <= Len(parsed)
    /\ \E a \in AnchorsOf(parsed[i]) : parse_line_ref(a[2]).line > Len(old_lines)

\* C9: out-of-range anchors are never relocated.  Resolving an operation
\* with an anchor beyond the last line ends the command with the
\* out-of-range error: that anchor keeps its line, no mismatch is recorded
\* for it, and neither the working lines nor the file change.
C9_OutOfRangeIsFatal ==
    [][ResolvingOutOfRange =>
        /\ pc' = "failed"
        /\ err' = "OutOfRange"
        /\ lines' = old_lines
        /\ file' = file0
        /\ writes' = 0
        /\ \A a \in AnchorsOf(parsed'[i]) :
            parse_line_ref(a[2]).line > Len(old_lines) =>
                a[1].line = parse_line_ref(a[2]).line
        /\ \A m \in DOMAIN mismatches' : mismatches'[m][1] <= Len(old_lines)]_vars

\* The command failed on an out-of-range anchor whose fingerprint occurs on
\* exactly one line of the file.
C9_Witness ==
    /\ pc = "failed"
    /\ err = "OutOfRange"
    /\ \E a \in AnchorsOf(parsed[i]) :
        /\ a[1].line > Len(old_lines)
        /\ Occurrences(a[1].hash) = 1

\* --------------------------------------------------------------------- C10
\* The anchor in front of the '|' of a printed line, and the text behind it.
PrintedAnchor(printed) == SubSeq(printed, 1, find(printed, <<"|">>))
PrintedText(printed) == SubSeq(printed, find(printed, <<"|">>) + 2, Len(printed))

\* The number of the line a read with this --offset prints at position j.
PrintedLineNo(offset, j) == (IF offset < 0 THEN 1 ELSE offset) + j - 1

\* C10: read-then-edit round trip.  Whatever --offset and --limit, an anchor
\* the read command prints for line k of the unchanged file stands in front
\* of the text the edit command has at line k, and resolves to line k: it is
\* not relocated and no mismatch is recorded for it.  (Anchors and mismatch
\* list only change in the resolution loop, so the loop is where it is
\* stated.)
C10_ReadEditRoundTrip ==
    (pc = "resolve" /\ i > 1) =>
        \A offset \in Offsets, limit \in Limits :
            LET out == read_command(file0, offset, limit).out
            IN  \A j \in DOMAIN out : \A a \in ResolvedAnchors :
                    PrintedAnchor(out[j]) = a[2] =>
                        LET k == PrintedLineNo(offset, j)
                        IN  /\ PrintedText(out[j]) = old_lines[k]
                            /\ a[1].line = k
                            /\ \A m \in DOMAIN mismatches :
                                ~(mismatches[m][1] = k /\ mismatches[m][2] = a[1].hash)

\* An anchor printed by a read from the second line on was resolved, and
\* its fingerprint occurs on several lines.
C10_Witness ==
    pc = "resolve" /\ \E a \in ResolvedAnchors :
        LET out == read_command(file0, 2, -1).out
        IN  /\ out # <<>>
            /\ PrintedAnchor(out[1]) = a[2]
            /\ a[1].line = 2
            /\ Occurrences(a[1].hash) >= 2

\* --------------------------------------------------------------------- C11
\* The anchor stands on a line whose fingerprint is its hash.
Matches(r) ==
    /\ 1 <= r.line
    /\ r.line <= Len(old_lines)
    /\ compute_line_hash(old_lines[r.line]) = r.hash

\* C11: resolution is idempotent.  A resolved anchor whose given hash is the
\* fingerprint of the line it names stands as it was given, whatever other
\* lines carry that fingerprint, and no mismatch is recorded for it; and
\* resolving a successfully resolved anchor (valid or relocated) once more
\* against the same lines returns it unchanged without error or mismatch.
C11_ResolveIdempotent ==
    \A a \in ResolvedAnchors :
        LET given == parse_line_ref(a[2])
            again == validate_or_relocate(a[1], old_lines, unique, <<>>)
        IN  /\ Matches(given) =>
                /\ a[1] = given
                /\ \A m \in DOMAIN mismatches :
                    ~(mismatches[m][1] = given.line /\ mismatches[m][2] = given.hash)
            /\ Matches(a[1]) =>
                /\ again.err = ""
                /\ again.r = a[1]
                /\ again.mismatches = <<>>

\* One batch resolved an anchor that matches its line while another line
\* has the same fingerprint, and an anchor that was relocated.
C11_Witness ==
    /\ \E a \in ResolvedAnchors :
        /\ Matches(parse_line_ref(a[2]))
        /\ Occurrences(a[1].hash) >= 2
    /\ \E a \in ResolvedAnchors :
        /\ Matches(a[1])
        /\ a[1].line # parse_line_ref(a[2]).line

\* --------------------------------------------------------------------- C12
\* Number of newline-separated lines of a replacement text; the empty text
\* has none.
NewlineCount(text) == Cardinality({p \in DOMAIN text : text[p] = LF})
LineCount(text) == IF text = <<>> THEN 0 ELSE NewlineCount(text) + 1

\* The batch is one operation of this kind.
OneOperation(kind) ==
    /\ Len(edits) = 1
    /\ Len(parsed) = 1
    /\ parsed[1].kind = kind

\* The working lines from..to hold exactly this text, cut at its newlines.
HoldsText(from, to, text) ==
    /\ \A j \in from..to : LF \notin Range(lines[j])
    /\ from <= to => join(SubSeq(lines, from, to), <<LF>>) = text

\* C12: SetLine.  A batch of one set_line whose anchor resolved to line k,
\* with a replacement text of m lines, ends without an error of
\* apply_hashline_edits and yields the pre-edit lines 1..k-1, the m
\* replacement lines in order, then the pre-edit lines k+1..n: n-1+m lines.
C12_SetLine ==
    (MutationEnded /\ OneOperation("Single")) =>
        LET k == parsed[1].r.line
            text == edits[1].new_text
            m == LineCount(text)
            n == Len(old_lines)
        IN  /\ ApplyErr = ""
            /\ Len(lines) = n - 1 + m
            /\ SubSeq(lines, 1, k - 1) = SubSeq(old_lines, 1, k - 1)
            /\ HoldsText(k, k + m - 1, text)
            /\ SubSeq(lines, k + m, n - 1 + m) = SubSeq(old_lines, k + 1, n)

\* Line 2 of a three-line file was set to a text of two lines.
C12_Witness ==
    /\ pc = "returned"
    /\ OneOperation("Single")
    /\ Len(old_lines) = 3
    /\ parsed[1].r.line = 2
    /\ LineCount(edits[1].new_text) = 2
    /\ Len(lines) = 4

\* --------------------------------------------------------------------- C13
\* C13: InsertAfter.  A batch of one insert_after whose anchor resolved to
\* line k, with a text of m >= 1 lines, ends without an error of
\* apply_hashline_edits and yields the pre-edit lines 1..k, the m inserted
\* lines, then the pre-edit lines k+1..n; for k = n the text is appended.
C13_InsertAfter ==
    (MutationEnded /\ OneOperation("InsertAfter")) =>
        LET k == parsed[1].after.line
            text == edits[1].text
            m == LineCount(text)
            n == Len(old_lines)
        IN  /\ ApplyErr = ""
            /\ m >= 1
            /\ Len(lines) = n + m
            /\ SubSeq(lines, 1, k) = SubSeq(old_lines, 1, k)
            /\ HoldsText(k + 1, k + m, text)
            /\ SubSeq(lines, k + m + 1, n + m) = SubSeq(old_lines, k + 1, n)

\* A text was inserted after the last line of a three-line file.
C13_Witness ==
    /\ pc = "returned"
    /\ OneOperation("InsertAfter")
    /\ Len(old_lines) = 3
    /\ parsed[1].after.line = 3
    /\ Len(lines) = 4
    /\ lines[4] = edits[1].text
    /\ SubSeq(lines, 1, 3) = old_lines

\* --------------------------------------------------------------------- C14
\* The next step of the mutation loop applies a replace with this all flag.
ApplyingReplace(all) ==
    /\ pc = "mutate"
    /\ i <= Len(parsed)
    /\ parsed[i].kind = "ReplaceText"
    /\ parsed[i].all = all

\* p stands in s behind the first q characters.
OccursAt(s, p, q) == q + Len(p) <= Len(s) /\ SubSeq(s, q + 1, q + Len(p)) = p
Occurs(s, p) == \E q \in 0..Len(s) : OccursAt(s, p, q)

\* C14: ReplaceSubstring without all.  Applying it to working lines whose
\* newline-joined text contains old_text rewrites the first occurrence only:
\* the joined text of the result is the text before the first occurrence,
\* new_text, and the text behind that occurrence as it was.  If old_text
\* does not occur the command ends with the substring-not-found error, the
\* working lines are as they were and the file is unchanged and unwritten.
C14_ReplaceFirstOnly ==
    [][ApplyingReplace(FALSE) =>
        LET joined == join(lines, <<LF>>)
            old == parsed[i].old
        IN  /\ Occurs(joined, old) =>
                /\ err' = ""
                /\ pc' \in {"mutate", "returned"}
                /\ \A j \in DOMAIN lines' : LF \notin Range(lines'[j])
                /\ \E q \in 0..Len(joined) :
                    /\ OccursAt(joined, old, q)
                    /\ \A before \in 0..(q - 1) : ~OccursAt(joined, old, before)
                    /\ join(lines', <<LF>>) =
                            SubSeq(joined, 1, q) \o parsed[i].new_ \o
                            SubSeq(joined, q + Len(old) + 1, Len(joined))
            /\ ~Occurs(joined, old) =>
                /\ pc' = "failed"
                /\ err' = "SubstringNotFound"
                /\ lines' = lines
                /\ file' = file0
                /\ writes' = 0]_vars

\* A replace without all, alone in its batch, rewrote the first of two
\* lines that both held old_text, and the second still holds it.
C14_Witness ==
    /\ pc = "returned"
    /\ OneOperation("ReplaceText")
    /\ ~parsed[1].all
    /\ Len(old_lines) >= 2
    /\ old_lines[1] = parsed[1].old
    /\ old_lines[2] = parsed[1].old
    /\ lines[1] = parsed[1].new_
    /\ lines[1] # old_lines[1]
    /\ lines[2] = old_lines[2]

\* --------------------------------------------------------------------- C15
\* An insert_after with empty text or a replace with empty old_text.
EmptyInput(edit) ==
    \/ edit.kind = "insert_after" /\ edit.text = <<>>
    \/ edit.kind = "replace" /\ edit.old_text = <<>>

HasEmptyInput == \E k \in DOMAIN edits : EmptyInput(edits[k])

ParseErrors == {"InvalidAnchor", "EmptyInsertText", "EmptyOldText"}

\* C15: input validation precedes everything.  A batch that holds an
\* insert_after with empty text or a replace with empty old_text at any
\* position never gets past the parse loop: the command ends there with a
\* parse error, no anchor was resolved (no operation is held, no mismatch
\* recorded, no out-of-range or stale-anchor error), no line was mutated
\* and the file is unchanged and unwritten.
C15_ValidationFirst ==
    HasEmptyInput =>
        /\ pc \in {"begin", "failed"}
        /\ pc = "begin" => err = ""
        /\ pc = "failed" => err \in ParseErrors
        /\ parsed = <<>>
        /\ mismatches = <<>>
        /\ i = 1
        /\ lines = old_lines
        /\ file = file0
        /\ writes = 0

\* A batch was rejected for the empty insert_after listed second, behind a
\* set_line whose anchor names a line beyond the file.
C15_Witness ==
    /\ pc = "failed"
    /\ err = "EmptyInsertText"
    /\ Len(edits) = 2
    /\ EmptyInput(edits[2])
    /\ edits[1].kind = "set_line"
    /\ parse_line_ref(edits[1].anchor).line > Len(old_lines)

\* --------------------------------------------------------------------- C16
\* The line without its whitespace characters.
NotBlank(ch) == ch \notin {" ", "\t", LF, CR}
strip_whitespace(line) == SelectSeq(line, NotBlank)

\* The line with only its whitespace changed: stripped, indented by a
\* blank, indented by a tab and followed by blanks, followed by a lone
\* carriage return.
Reindented(line) ==
    { strip_whitespace(line),
      <<" ">> \o line,
      <<"\t", " ">> \o line \o <<" ", " ">>,
      <<"\t">> \o strip_whitespace(line) \o <<CR>> }

\* The lines of the file and the lines the batch has produced so far.
LinesAtHand == Range(old_lines) \cup Range(lines)

\* C16: whitespace-insensitive fingerprint.  Every line has the fingerprint
\* of the line with its whitespace removed; lines that differ only in
\* whitespace have the same fingerprint; and the anchor of line k of the
\* file resolves to line k, without relocation or mismatch, against the
\* file with only the whitespace of line k changed.
C16_WhitespaceInsensitive ==
    /\ \A line \in LinesAtHand :
        /\ compute_line_hash(line) = compute_line_hash(strip_whitespace(line))
        /\ \A other \in LinesAtHand \cup Reindented(line) :
            strip_whitespace(other) = strip_whitespace(line) =>
                compute_line_hash(other) = compute_line_hash(line)
    /\ \A k \in DOMAIN old_lines : \A changed \in Reindented(old_lines[k]) :
        LET r == parse_line_ref(anchor(k, compute_line_hash(old_lines[k])))
            now == [old_lines EXCEPT ![k] = changed]
            v == validate_or_relocate(r, now, unique_index(now), <<>>)
        IN  /\ r.ok
            /\ v.err = ""
            /\ v.r = r
            /\ v.mismatches = <<>>

\* An anchor was resolved, unmoved, on a line that holds whitespace, and
\* the batch has produced a line that is that line without its whitespace.
C16_Witness ==
    \E a \in ResolvedAnchors :
        /\ Matches(a[1])
        /\ a[1].line = parse_line_ref(a[2]).line
        /\ old_lines[a[1].line] # strip_whitespace(old_lines[a[1].line])
        /\ strip_whitespace(old_lines[a[1].line]) \in Range(lines)

\* --------------------------------------------------------------------- C17
\* The operations are applied in the order of parsed, which is sorted from
\* the start of the mutation phase on.
\* Operation j is an insert_after and operation k a set_line or
\* replace_lines ordered by the same line.
InsertAndReplaceOnOneLine(j, k) ==
    /\ parsed[j].kind = "InsertAfter"
    /\ parsed[k].kind \in {"Single", "Range"}
    /\ KeyLine(parsed[j]) = KeyLine(parsed[k])

DescendingLines ==
    \A j \in DOMAIN parsed, k \in DOMAIN parsed :
        (j < k /\ Anchored(parsed[j]) /\ Anchored(parsed[k])) =>
            KeyLine(parsed[j]) >= KeyLine(parsed[k])

\* C17 as stated: anchor-addressed operations are applied in descending
\* order of target line (a replace_lines by its end line), and an
\* insert_after is applied after a set_line or replace_lines on the same
\* line.
C17_InsertAfterAppliedLast ==
    InMutation =>
        /\ DescendingLines
        /\ \A j \in DOMAIN parsed, k \in DOMAIN parsed :
            InsertAndReplaceOnOneLine(j, k) => k < j

\* C17 as amended: anchor-addressed operations are applied in descending
\* order of target line (a replace_lines by its end line), and an
\* insert_after is applied before a set_line or replace_lines on the same
\* line; when the replace is then applied, the lines it targets are still
\* the pre-edit lines with those numbers.
C17_InsertAfterAppliedFirst ==
    InMutation =>
        /\ DescendingLines
        /\ \A j \in DOMAIN parsed, k \in DOMAIN parsed :
            InsertAndReplaceOnOneLine(j, k) =>
                /\ j < k
                /\ (pc = "mutate" /\ Len(parsed) = 2 /\ i = k) =>
                    \A t \in TargetLines(parsed[k]) :
                        t <= Len(origin) /\ origin[t] = t

\* A batch that lists a set_line and then an insert_after on the same line
\* has applied the insert_after and is about to apply the set_line.
C17_Witness ==
    /\ pc = "mutate"
    /\ i = 2
    /\ Len(parsed) = 2
    /\ InsertAndReplaceOnOneLine(1, 2)
    /\ parsed[1].idx = 1
    /\ parsed[2].kind = "Single"
    /\ Len(lines) > Len(old_lines)

\* --------------------------------------------------------------------- C18
\* No replace stands in front of an anchor-addressed operation.
ReplaceTextLast ==
    \A j \in DOMAIN parsed, k \in DOMAIN parsed :
        (j < k /\ parsed[j].kind = "ReplaceText") => parsed[k].kind = "ReplaceText"

\* The batch is one anchor-addressed operation and one replace, listed in
\* either order.
AnchoredAndReplace ==
    /\ Len(edits) = 2
    /\ Len(parsed) = 2
    /\ \E j \in 1..2 : Anchored(parsed[j])
    /\ \E j \in 1..2 : parsed[j].kind = "ReplaceText"

\* C18: ReplaceSubstring runs last.  Wherever the replace operations are
\* listed, in the order of application every one of them stands behind
\* every set_line, replace_lines and insert_after; and a batch of one
\* anchor-addressed operation and one replace ends as the replace ends when
\* it is applied to the line sequence the anchor-addressed operation alone
\* yields, that is, to the text that holds its new lines.
C18_ReplaceRunsLast ==
    /\ InMutation => ReplaceTextLast
    /\ (MutationEnded /\ AnchoredAndReplace) =>
        LET anchored == CHOOSE spec \in Range(parsed) : Anchored(spec)
            rep == CHOOSE spec \in Range(parsed) : spec.kind = "ReplaceText"
            first == apply_hashline_edits(old_lines, <<EditOf(anchored)>>)
            second == apply_spec(first.lines, rep)
        IN  /\ first.err = ""
            /\ ApplyErr = second.err
            /\ lines = second.lines

\* A batch that lists a replace in front of a set_line succeeded, and the
\* text it replaced did not occur in the file: it was found in the line
\* the set_line had put there.
C18_Witness ==
    /\ pc = "returned"
    /\ Len(edits) = 2
    /\ edits[1].kind = "replace"
    /\ edits[2].kind = "set_line"
    /\ ~Occurs(join(old_lines, <<LF>>), edits[1].old_text)
    /\ Occurs(edits[2].new_text, edits[1].old_text)

\* --------------------------------------------------------------------- C19
\* C19: the bounds checks of the mutation phase are unreachable.  No step
\* of the mutation phase, which is entered only when every anchor has
\* resolved and the mismatch list is empty, ends the command with the
\* line-does-not-exist / range-out-of-bounds error or the start-after-end
\* error.
C19_BoundsChecksUnreachable ==
    [][pc = "mutate" => err' \notin {"OutOfBounds", "InvalidRange"}]_vars

\* --------------------------------------------------------------------- C20
\* C20 as stated: applying a replace with all never ends in the
\* substring-not-found error and the batch continues; if old_text does not
\* occur in the joined text the line sequence is left as it was.  A
\* replace without all whose old_text does not occur ends the command with
\* that error.
C20_ReplaceAllKeepsLines ==
    [][ /\ ApplyingReplace(TRUE) =>
            /\ err' = ""
            /\ pc' \in {"mutate", "returned"}
            /\ i' = i + 1
            /\ ~Occurs(join(lines, <<LF>>), parsed[i].old) => lines' = lines
        /\ (ApplyingReplace(FALSE) /\ ~Occurs(join(lines, <<LF>>), parsed[i].old)) =>
            /\ pc' = "failed"
            /\ err' = "SubstringNotFound"]_vars

\* C20 as amended: applying a replace with all never ends in the
\* substring-not-found error and the batch continues; if old_text does not
\* occur, the joined text and the content the command would write are left
\* as they were, and so is the line sequence, except that an empty line
\* sequence comes back from the re-split as one empty line.  A replace
\* without all whose old_text does not occur ends the command with that
\* error.
C20_ReplaceAllKeepsText ==
    [][ /\ ApplyingReplace(TRUE) =>
            /\ err' = ""
            /\ pc' \in {"mutate", "returned"}
            /\ i' = i + 1
            /\ ~Occurs(join(lines, <<LF>>), parsed[i].old) =>
                /\ join(lines', <<LF>>) = join(lines, <<LF>>)
                /\ render_output(lines', had_final_newline, line_ending) =
                        render_output(lines, had_final_newline, line_ending)
                /\ lines' = IF lines = <<>> THEN << <<>> >> ELSE lines
        /\ (ApplyingReplace(FALSE) /\ ~Occurs(join(lines, <<LF>>), parsed[i].old)) =>
            /\ pc' = "failed"
            /\ err' = "SubstringNotFound"]_vars

\* A replace with all whose old_text occurs nowhere was applied first,
\* and the batch went on to its second replace and succeeded.
C20_Witness ==
    /\ pc = "returned"
    /\ Len(parsed) = 2
    /\ parsed[1].kind = "ReplaceText"
    /\ parsed[1].all
    /\ ~Occurs(join(old_lines, <<LF>>), parsed[1].old)
    /\ parsed[2].kind = "ReplaceText"
    /\ lines # old_lines

====
